---- MODULE Spec2Model ----
(***************************************************************************)
(* Model of the heatwave in-memory cache: Bucket (key table, lifecycle,    *)
(* two locks, background cleanup goroutine) and its two built-in Updater   *)
(* strategies, lru (doubly linked list + nodeMap) and fifo (slice).        *)
(*                                                                         *)
(* Client goroutines call Nail / Bring / Size / Clear / Close / IsClosed.  *)
(* A call is split at its lock acquisitions: the step that takes the data  *)
(* lock (b.mutex) and the step that runs isClosed() (b.closeMutex) plus    *)
(* the rest of the body up to the deferred Unlock.  Everything between two *)
(* lock acquisitions of one call is invisible to the other goroutines and  *)
(* is one step.                                                            *)
(*                                                                         *)
(* Pointers are small integers.  A *CacheItem is an index into heap; a     *)
(* slot is reused once neither the key table nor the updater refers to it  *)
(* (garbage collection).  The *lruNode created by lru.Add for an item has  *)
(* the index of that item.                                                 *)
(***************************************************************************)
EXTENDS Integers, Sequences, FiniteSets, TLC

\* ------------------------------------------------------------------ bounds
MaxCap   == 2      \* largest maxSize a bucket is built with
MaxTime  == 2      \* the clock runs 0..MaxTime

Outdated == 1      \* *b.outdated, the TTL, in clock units

KeyNames == <<"A", "B", "C">>       \* the ids passed to Nail / Bring
Keys     == {KeyNames[i] : i \in 1..Len(KeyNames)}
Values   == {1, 2}                  \* the data values passed to Nail
Procs    == {1, 2}                  \* the client goroutines
NumItems == Len(KeyNames)           \* CacheItems that can be live at once
ItemIds  == 1..NumItems

Nil     == 0                 \* nil pointer, Go zero value of T
NoKey   == "-"
NoProc  == 0
lruHead == NumItems + 1      \* sentinel node l.head
lruTail == NumItems + 2      \* sentinel node l.tail
Links   == ItemIds \cup {lruHead, lruTail}

VARIABLES
    maxSize,      \* b.maxSize
    neverExpire,  \* the never-expire option was given to NewBucket
    cache,        \* b.cache : key -> *CacheItem (Nil = no entry)
    heap,         \* the CacheItem objects : [key, value, expiredAt]
    updater,      \* b.updater : an lru or a fifo
    closed,       \* b.closed
    closeMutex,   \* holder of b.closeMutex, NoProc if free
    mutex,        \* write holder of b.mutex, NoProc if free
    readers,      \* read holders of b.mutex
    stopCleanup,  \* b.stopCleanup : [len, closed]
    sweeper,      \* position of the startCleanup goroutine
    pc,           \* position of each client goroutine
    now,          \* time.Now()
    ret,          \* what the call that completed in the last step returned:
                  \* Nail: ok = (err = nil); Bring: (val, ok); Size: val;
                  \* IsClosed: ok; Close: ok = (err = nil)
    panicked,     \* a goroutine panicked (close of a closed channel)
    touchOrder,   \* history: keys present, least recently touched first (lru)
    arrivalOrder, \* history: keys present, earliest inserted first (fifo)
    lastPut,      \* history: per key present, value and time of its last Nail
    evicted,      \* history: the key the last step evicted for capacity
    swept,        \* history: the keys the last step's sweep removed
    closeDone,    \* history: some Close call has returned
    teardowns,    \* history: how many Close calls ran the teardown
    buckets,      \* the Bucket objects of a program that builds two of them
    updaters      \* the Updater objects those buckets point to, by address

vars == <<maxSize, neverExpire, cache, heap, updater, closed, closeMutex, mutex,
          readers, stopCleanup, sweeper, pc, now, ret, panicked,
          touchOrder, arrivalOrder, lastPut, evicted, swept, closeDone, teardowns,
          buckets, updaters>>

\* ----------------------------------------------------------------- helpers
SeqToSet(s)    == {s[i] : i \in 1..Len(s)}
RemoveFrom(s, x) == SelectSeq(s, LAMBDA y : y # x)
NoItem  == [key |-> NoKey, value |-> Nil, expiredAt |-> 0]
NoRet   == [op |-> "none", val |-> 0, ok |-> FALSE]
NoPut   == [val |-> Nil, at |-> 0]
Ret(op, v, ok) == [op |-> op, val |-> v, ok |-> ok]
\* F applied to the value of x: x is evaluated once, however often F uses it
Bind(x, F(_)) == CHOOSE r \in {F(v) : v \in {x}} : TRUE

\* ------------------------------------------------------------ lru (lru.go)
\* The list is l.next / l.prev over the node indices and the two sentinels,
\* l.nodeMap maps an item to its node (Nil = not tracked), l.size counts.
newLRUUpdater ==
    [kind    |-> "lru",
     next    |-> [n \in Links |-> IF n = lruHead THEN lruTail ELSE Nil],
     prev    |-> [n \in Links |-> IF n = lruTail THEN lruHead ELSE Nil],
     size    |-> 0,
     nodeMap |-> [i \in ItemIds |-> Nil]]

\* node.prev = l.head; node.next = l.head.next;
\* l.head.next.prev = node; l.head.next = node; l.size++
addNodeToHead(l, node) ==
    LET prev1 == [l.prev EXCEPT ![node] = lruHead]
        next1 == [l.next EXCEPT ![node] = l.next[lruHead]]
        prev2 == [prev1 EXCEPT ![next1[lruHead]] = node]
        next2 == [next1 EXCEPT ![lruHead] = node]
    IN  [l EXCEPT !.prev = prev2, !.next = next2, !.size = l.size + 1]

\* mutant: the successor's prev pointer is left pointing at the removed node
removeNodeOneWay(l, node) ==
    [l EXCEPT !.next[l.prev[node]] = l.next[node], !.size = l.size - 1]

\* node.prev.next = node.next; node.next.prev = node.prev; l.size--
removeNode(l, node) ==
    LET next1 == [l.next EXCEPT ![l.prev[node]] = l.next[node]]
        prev1 == [l.prev EXCEPT ![next1[node]] = l.prev[node]]
    IN  [l EXCEPT !.next = next1, !.prev = prev1, !.size = l.size - 1]

\* a node that is no longer referenced is garbage: its fields are forgotten
dropNode(l, node) ==
    [l EXCEPT !.next[node] = Nil, !.prev[node] = Nil]

moveNodeToHead(l, node) == addNodeToHead(removeNode(l, node), node)

\* removeTail returns the pair (updater after, item or Nil)
removeTail(l) ==
    IF l.size = 0
    THEN [u |-> l, item |-> Nil]
    ELSE LET lastNode == l.prev[lruTail]
             item     == lastNode
             l1       == removeNode(l, lastNode)
         IN  [u |-> dropNode([l1 EXCEPT !.nodeMap[item] = Nil], lastNode),
              item |-> item]

lruAdd(l, item) ==
    addNodeToHead([l EXCEPT !.nodeMap[item] = item], item)

\* mutant: Access leaves the list as it is
lruAccessNoMove(l, item) == l

lruAccess(l, item) ==
    IF l.nodeMap[item] # Nil THEN moveNodeToHead(l, l.nodeMap[item]) ELSE l

\* mutant: Remove counts down also when the item is not tracked
lruRemoveAlwaysCounts(l, item) ==
    IF l.nodeMap[item] # Nil
    THEN LET node == l.nodeMap[item]
             l1   == removeNode(l, node)
         IN  dropNode([l1 EXCEPT !.nodeMap[item] = Nil], node)
    ELSE [l EXCEPT !.size = l.size - 1]

lruRemove(l, item) ==
    IF l.nodeMap[item] # Nil
    THEN LET node == l.nodeMap[item]
             l1   == removeNode(l, node)
         IN  dropNode([l1 EXCEPT !.nodeMap[item] = Nil], node)
    ELSE l

lruEvict(l) == removeTail(l)

lruSize(l) == l.size

lruClear(l) == newLRUUpdater

\* ---------------------------------------------------------- fifo (fifo.go)
newFIFO == [kind |-> "fifo", items |-> << >>]

fifoAdd(f, item) == [f EXCEPT !.items = Append(f.items, item)]

\* mutant: Access moves the item to the back of the queue
fifoAccessMoves(f, item) ==
    IF \E i \in 1..Len(f.items) : f.items[i] = item
    THEN [f EXCEPT !.items = Append(RemoveFrom(f.items, item), item)]
    ELSE f

fifoAccess(f, item) == f

\* mutant: Remove drops the head of the queue instead of the item
fifoRemoveHead(f, item) ==
    IF \E i \in 1..Len(f.items) : f.items[i] = item
    THEN [f EXCEPT !.items = SubSeq(f.items, 2, Len(f.items))]
    ELSE f

\* removes the first occurrence only (break after the splice)
fifoRemove(f, item) ==
    IF \E i \in 1..Len(f.items) : f.items[i] = item
    THEN LET i == CHOOSE j \in 1..Len(f.items) :
                    /\ f.items[j] = item
                    /\ \A h \in 1..(j - 1) : f.items[h] # item
         IN  [f EXCEPT !.items = SubSeq(f.items, 1, i - 1)
                                 \o SubSeq(f.items, i + 1, Len(f.items))]
    ELSE f

fifoEvict(f) ==
    IF Len(f.items) = 0
    THEN [u |-> f, item |-> Nil]
    ELSE [u |-> [f EXCEPT !.items = SubSeq(f.items, 2, Len(f.items))],
          item |-> f.items[1]]

fifoSize(f) == Len(f.items)

fifoClear(f) == [f EXCEPT !.items = << >>]

\* ------------------------------------------- Updater interface (updater.go)
UpdaterAdd(u, item)    == IF u.kind = "lru" THEN lruAdd(u, item) ELSE fifoAdd(u, item)
UpdaterAccess(u, item) == IF u.kind = "lru" THEN lruAccess(u, item) ELSE fifoAccess(u, item)
UpdaterRemove(u, item) == IF u.kind = "lru" THEN lruRemove(u, item) ELSE fifoRemove(u, item)
UpdaterEvict(u)        == IF u.kind = "lru" THEN lruEvict(u) ELSE fifoEvict(u)
UpdaterSize(u)         == IF u.kind = "lru" THEN lruSize(u) ELSE fifoSize(u)
UpdaterClear(u)        == IF u.kind = "lru" THEN lruClear(u) ELSE fifoClear(u)

\* The items an updater refers to, in eviction order (next victim first).
\* For the lru this walks the list from the tail sentinel along prev.
RECURSIVE lruWalk(_, _, _)
lruWalk(l, node, fuel) ==
    IF node = lruHead \/ node = Nil \/ fuel = 0
    THEN << >>
    ELSE <<node>> \o lruWalk(l, l.prev[node], fuel - 1)

Tracked(u) ==
    IF u.kind = "lru" THEN lruWalk(u, u.prev[lruTail], NumItems + 1) ELSE u.items

Referenced(u) ==
    IF u.kind = "lru"
    THEN SeqToSet(Tracked(u)) \cup {i \in ItemIds : u.nodeMap[i] # Nil}
    ELSE SeqToSet(u.items)

\* --------------------------------------------------- Bucket data (bucket.go)
\* The data guarded by b.mutex is handled as one record d = [cache, heap,
\* updater]; the operators below are the bodies of the Bucket methods on it.
emptyCache == [k \in Keys |-> Nil]

Live(c, u) == {c[k] : k \in Keys} \cup Referenced(u)

\* &CacheItem{...}: a pointer distinct from every live one (Nil: heap full).
\* Any free pointer will do; the allocator hands out the slot numbered like
\* the key when it is free and the lowest free slot otherwise, which keeps
\* states that differ only in pointer values from being counted twice.
KeyIndex(id) == CHOOSE i \in 1..Len(KeyNames) : KeyNames[i] = id

\* mutant: the new item is the object numbered like the key's successor,
\* live or not
newPointerAliases(c, u, id) ==
    IF KeyIndex(id) < NumItems THEN KeyIndex(id) + 1 ELSE KeyIndex(id)

newPointer(c, u, id) ==
    IF KeyIndex(id) \in ItemIds /\ KeyIndex(id) \notin Live(c, u)
    THEN KeyIndex(id)
    ELSE IF \E i \in ItemIds : i \notin Live(c, u)
         THEN CHOOSE i \in ItemIds :
                 /\ i \notin Live(c, u)
                 /\ \A j \in ItemIds : j \notin Live(c, u) => i <= j
         ELSE Nil

\* garbage collection: an item nothing refers to is forgotten
collect(data) ==
    Bind(data, LAMBDA d :
    Bind(Live(d.cache, d.updater), LAMBDA live :
        [d EXCEPT !.heap = [i \in ItemIds |->
                              IF i \in live THEN d.heap[i] ELSE NoItem]]))

\* mutant: an item counts as expired at its deadline already
isExpiredAtDeadline(item, t) == t >= item.expiredAt

\* time.Now().After(item.expiredAt)
isExpired(item, t) == t > item.expiredAt

\* mutant: the capacity test is off by one
atCapacityOffByOne(u, cap) == UpdaterSize(u) > cap

\* Nail, line 86: if b.updater.Size() >= b.maxSize
atCapacity(u, cap) == UpdaterSize(u) >= cap

\* mutant: at capacity an entry whose deadline has passed is the victim, if
\* there is one, whatever the strategy's order
nailEvictExpiredFirst(d, cap) ==
    LET stale == {k \in Keys : d.cache[k] # Nil /\ isExpired(d.heap[d.cache[k]], now)}
        ev == IF atCapacity(d.updater, cap)
              THEN IF stale # {}
                   THEN LET k == CHOOSE x \in stale : TRUE
                        IN  [u |-> UpdaterRemove(d.updater, d.cache[k]),
                             item |-> d.cache[k]]
                   ELSE UpdaterEvict(d.updater)
              ELSE [u |-> d.updater, item |-> Nil]
    IN  [cache   |-> IF ev.item # Nil
                     THEN [d.cache EXCEPT ![d.heap[ev.item].key] = Nil]
                     ELSE d.cache,
         heap    |-> d.heap,
         updater |-> ev.u,
         key     |-> IF ev.item # Nil THEN d.heap[ev.item].key ELSE NoKey]

\* mutant: the evicted item leaves the updater but its key stays in the table
nailEvictKeepsKey(d, cap) ==
    LET ev == IF atCapacity(d.updater, cap)
              THEN UpdaterEvict(d.updater)
              ELSE [u |-> d.updater, item |-> Nil]
    IN  [cache   |-> d.cache,
         heap    |-> d.heap,
         updater |-> ev.u,
         key     |-> IF ev.item # Nil THEN d.heap[ev.item].key ELSE NoKey]

\* Nail, lines 86-91: Evict when full, and delete the evicted item's key
nailEvict(d, cap) ==
    LET ev == IF atCapacity(d.updater, cap)
              THEN UpdaterEvict(d.updater)
              ELSE [u |-> d.updater, item |-> Nil]
    IN  [cache   |-> IF ev.item # Nil
                     THEN [d.cache EXCEPT ![d.heap[ev.item].key] = Nil]
                     ELSE d.cache,
         heap    |-> d.heap,
         updater |-> ev.u,
         key     |-> IF ev.item # Nil THEN d.heap[ev.item].key ELSE NoKey]

\* Nail, line 75: expiredAt := time.Now().Add(*b.outdated)
ttlDeadline(t) == t + Outdated

\* Never-expire mode: Nail assigns a deadline no clock value reaches
Forever == MaxTime + Outdated + 1

\* mutant: the never-expire option is ignored
deadlineIgnoresNever(t) == ttlDeadline(t)

\* the deadline Nail assigns: now + ttl, or unbounded in never-expire mode
deadline(t) == IF neverExpire THEN Forever ELSE ttlDeadline(t)

\* mutant: the overwrite does not call Access
nailUpdateNoTouch(d, id, data, t) ==
    LET existingItem == d.cache[id] IN
    [d EXCEPT !.heap[existingItem].value = data,
              !.heap[existingItem].expiredAt = deadline(t)]

\* mutant: the overwrite refreshes the deadline but keeps the old value
nailUpdateKeepsValue(d, id, data, t) ==
    LET existingItem == d.cache[id] IN
    [d EXCEPT !.heap[existingItem].expiredAt = deadline(t),
              !.updater = UpdaterAccess(d.updater, existingItem)]

\* mutant: the overwrite stores the value but keeps the old deadline
nailUpdateKeepsDeadline(d, id, data, t) ==
    LET existingItem == d.cache[id] IN
    [d EXCEPT !.heap[existingItem].value = data,
              !.updater = UpdaterAccess(d.updater, existingItem)]

\* Nail, lines 78-83: the key exists, update the item in place and touch it
nailUpdate(d, id, data, t) ==
    LET existingItem == d.cache[id] IN
    [d EXCEPT !.heap[existingItem].value = data,
              !.heap[existingItem].expiredAt = deadline(t),
              !.updater = UpdaterAccess(d.updater, existingItem)]

\* Nail, lines 85-101: make room, create the item, store and Add it
nailInsert(d, id, data, t, cap) ==
    Bind(nailEvict(d, cap), LAMBDA e :
    Bind(newPointer(e.cache, e.updater, id), LAMBDA newItem :
        IF newItem = Nil
        THEN d
        ELSE collect(
             [cache   |-> [e.cache EXCEPT ![id] = newItem],
              heap    |-> [e.heap EXCEPT ![newItem] =
                              [key |-> id, value |-> data, expiredAt |-> deadline(t)]],
              updater |-> UpdaterAdd(e.updater, newItem)])))

\* mutant: an entry whose deadline has passed counts as absent
nailDataExpiredIsAbsent(d, id, data, t, cap) ==
    IF d.cache[id] # Nil /\ ~isExpired(d.heap[d.cache[id]], t)
    THEN nailUpdate(d, id, data, t)
    ELSE nailInsert(d, id, data, t, cap)

\* Nail, lines 75-103, after the closed check
nailData(d, id, data, t, cap) ==
    IF d.cache[id] # Nil
    THEN nailUpdate(d, id, data, t)
    ELSE nailInsert(d, id, data, t, cap)

\* Nail can run only if the heap has room for the item it may create
nailRoom(d, id, cap) ==
    \/ d.cache[id] # Nil
    \/ LET e == nailEvict(d, cap) IN newPointer(e.cache, e.updater, id) # Nil

\* Nail, lines 86-91: the key of the item evicted for capacity, if any
evictedKey(d, id, cap) ==
    IF d.cache[id] = Nil THEN nailEvict(d, cap).key ELSE NoKey

\* mutant: a hit also refreshes the deadline of the item
bringDataRefreshes(d, id, t) ==
    IF d.cache[id] = Nil
    THEN d
    ELSE LET item == d.cache[id] IN
         IF isExpired(d.heap[item], t)
         THEN collect([d EXCEPT !.updater = UpdaterRemove(d.updater, item),
                                !.cache[id] = Nil])
         ELSE [d EXCEPT !.updater = UpdaterAccess(d.updater, item),
                        !.heap[item].expiredAt = deadline(t)]

\* mutant: an expired entry found by Bring leaves the table but not the updater
bringDataExpiredKeepsTracked(d, id, t) ==
    IF d.cache[id] = Nil
    THEN d
    ELSE LET item == d.cache[id] IN
         IF isExpired(d.heap[item], t)
         THEN collect([d EXCEPT !.cache[id] = Nil])
         ELSE [d EXCEPT !.updater = UpdaterAccess(d.updater, item)]

\* mutant: a miss on an absent key evicts the strategy's next victim
bringDataMissEvicts(d, id, t) ==
    IF d.cache[id] = Nil
    THEN LET e == nailEvict(d, 0) IN
         collect([cache |-> e.cache, heap |-> e.heap, updater |-> e.updater])
    ELSE LET item == d.cache[id] IN
         IF isExpired(d.heap[item], t)
         THEN collect([d EXCEPT !.updater = UpdaterRemove(d.updater, item),
                                !.cache[id] = Nil])
         ELSE [d EXCEPT !.updater = UpdaterAccess(d.updater, item)]

\* Bring, lines 118-133, after the closed check: the data after the call
bringData(d, id, t) ==
    IF d.cache[id] = Nil
    THEN d
    ELSE LET item == d.cache[id] IN
         IF isExpired(d.heap[item], t)
         THEN collect([d EXCEPT !.updater = UpdaterRemove(d.updater, item),
                                !.cache[id] = Nil])
         ELSE [d EXCEPT !.updater = UpdaterAccess(d.updater, item)]

\* Bring, lines 118-133: the pair (value, found) it returns
bringResult(d, id, t) ==
    IF d.cache[id] = Nil
    THEN [val |-> Nil, ok |-> FALSE]
    ELSE IF isExpired(d.heap[d.cache[id]], t)
         THEN [val |-> Nil, ok |-> FALSE]
         ELSE [val |-> d.heap[d.cache[id]].value, ok |-> TRUE]

\* mutant: the first loop collects nothing
expiredKeysNone(d, t) == {}

\* cleanupExpired, lines 164-180: the keys collected by the first loop
expiredKeys(d, t) ==
    {k \in Keys : d.cache[k] # Nil /\ isExpired(d.heap[d.cache[k]], t)}

\* cleanupExpired, lines 174-180: the second loop over the collected keys
RECURSIVE deleteKeys(_, _)
deleteKeys(d, ks) ==
    IF ks = {}
    THEN d
    ELSE LET key == CHOOSE k \in ks : TRUE
             d1  == IF d.cache[key] # Nil
                    THEN [d EXCEPT !.updater = UpdaterRemove(d.updater, d.cache[key]),
                                   !.cache[key] = Nil]
                    ELSE d
         IN  deleteKeys(d1, ks \ {key})

\* mutant: the sweep deletes the keys but leaves the items in the updater
cleanupDataKeepsTracked(d, t) ==
    collect([d EXCEPT !.cache = [k \in Keys |->
                IF k \in expiredKeys(d, t) THEN Nil ELSE d.cache[k]]])

cleanupData(d, t) == collect(deleteKeys(d, expiredKeys(d, t)))

\* mutant: the clear empties the key table and leaves the updater as it is
clearDataKeepsUpdater(d) == [d EXCEPT !.cache = emptyCache]

\* Clear, lines 250-251, and the clearing step of Close, lines 210-211
clearData(d) ==
    collect([d EXCEPT !.cache = emptyCache, !.updater = UpdaterClear(d.updater)])

\* the data of the bucket in the current state
Data == [cache |-> cache, heap |-> heap, updater |-> updater]

SetData(d) ==
    /\ cache'   = d.cache
    /\ heap'    = d.heap
    /\ updater' = d.updater

Present(c) == {k \in Keys : c[k] # Nil}

\* ---------------------------------------------------------------- history
\* History variables record what the callers did; the code never reads them.
\* They follow the key table: a key that leaves the table leaves them too.
touchAfter(order, c2, touched) ==
    LET kept == SelectSeq(order, LAMBDA k : c2[k] # Nil /\ k # touched)
    IN  IF touched # NoKey /\ c2[touched] # Nil THEN Append(kept, touched) ELSE kept

History(c2, touched, inserted, put) ==
    /\ touchOrder' = IF updater.kind = "lru"
                     THEN touchAfter(touchOrder, c2, touched) ELSE << >>
    /\ arrivalOrder' = IF updater.kind = "fifo"
                       THEN touchAfter(arrivalOrder, c2, inserted) ELSE << >>
    /\ lastPut' = [k \in Keys |->
                     IF c2[k] = Nil THEN NoPut
                     ELSE IF k = touched /\ put # Nil
                          THEN [val |-> put, at |-> now]
                          ELSE lastPut[k]]

\* ------------------------------------------------------------------- state
Start ==
    /\ maxSize \in 1..MaxCap
    /\ cache = emptyCache
    /\ heap = [i \in ItemIds |-> NoItem]
    /\ updater \in {newLRUUpdater, newFIFO}
    /\ closed = FALSE
    /\ closeMutex = NoProc
    /\ mutex = NoProc
    /\ readers = {}
    /\ stopCleanup = [len |-> 0, closed |-> FALSE]
    /\ sweeper = "select"
    /\ now = 0
    /\ ret = NoRet
    /\ panicked = FALSE
    /\ touchOrder = << >>
    /\ arrivalOrder = << >>
    /\ lastPut = [k \in Keys |-> NoPut]
    /\ evicted = NoKey
    /\ swept = {}
    /\ closeDone = FALSE
    /\ teardowns = 0

\* the program builds the one bucket described by the variables above
OneBucket ==
    /\ buckets = << >>
    /\ updaters = << >>

\* all client goroutines use a bucket with a ttl
Init ==
    /\ Start
    /\ OneBucket
    /\ neverExpire = FALSE
    /\ pc = [p \in Procs |-> "idle"]

\* a single client goroutine uses a bucket with a ttl ("off": never started)
SeqInit ==
    /\ Start
    /\ OneBucket
    /\ neverExpire = FALSE
    /\ pc = [p \in Procs |-> IF p = 1 THEN "idle" ELSE "off"]

\* a single client goroutine uses a bucket built with the never-expire option
NeverInit ==
    /\ Start
    /\ OneBucket
    /\ neverExpire = TRUE
    /\ pc = [p \in Procs |-> IF p = 1 THEN "idle" ELSE "off"]

dataVars    == <<cache, heap, updater>>
peerVars    == <<buckets, updaters>>
historyVars == <<touchOrder, arrivalOrder, lastPut>>
configVars  == <<maxSize, neverExpire>>
closeVars   == <<closed, stopCleanup, panicked, closeDone, teardowns>>

\* mutant: Lock() does not wait for the readers to leave
CanLockIgnoresReaders == mutex = NoProc

\* b.mutex.Lock() succeeds
CanLock  == mutex = NoProc /\ readers = {}
\* mutant: RLock() also waits for the other readers to leave
CanRLockAlone == mutex = NoProc /\ readers = {}

\* b.mutex.RLock() succeeds
CanRLock == mutex = NoProc
\* b.closeMutex.Lock() succeeds: isClosed() and Close() can proceed
CanLockClose == closeMutex = NoProc

\* mutant: isClosed never reports the bucket closed
isClosedNever == FALSE

\* b.isClosed(), lines 218-222: the value of b.closed read under b.closeMutex
isClosed == closed

\* time passes
Tick ==
    /\ now < MaxTime
    /\ now' = now + 1
    /\ ret' = NoRet
    /\ evicted' = NoKey
    /\ swept' = {}
    /\ UNCHANGED <<dataVars, historyVars, configVars, peerVars, closeVars,
                   closeMutex, mutex, readers, sweeper, pc>>

\* ---- Nail(id, data): b.mutex.Lock()
NailLock(p) ==
    /\ pc[p] = "idle"
    /\ CanLock
    /\ mutex' = p
    /\ pc' = [pc EXCEPT ![p] = "Nail"]
    /\ ret' = NoRet
    /\ evicted' = NoKey
    /\ swept' = {}
    /\ UNCHANGED <<dataVars, historyVars, configVars, peerVars, closeVars,
                   closeMutex, readers, sweeper, now>>

\* ---- Nail(id, data): isClosed(), the body, the deferred Unlock
NailBody(p, id, data) ==
    /\ pc[p] = "Nail"
    /\ CanLockClose
    /\ IF isClosed
       THEN /\ ret' = Ret("Nail", 0, FALSE)
            /\ evicted' = NoKey
            /\ swept' = {}
            /\ UNCHANGED <<dataVars, historyVars>>
       ELSE /\ nailRoom(Data, id, maxSize)
            /\ \E d \in {nailData(Data, id, data, now, maxSize)} :
               /\ SetData(d)
               /\ History(d.cache, id, IF cache[id] = Nil THEN id ELSE NoKey, data)
            /\ ret' = Ret("Nail", 0, TRUE)
            /\ evicted' = evictedKey(Data, id, maxSize)
            /\ swept' = {}
    /\ mutex' = NoProc
    /\ pc' = [pc EXCEPT ![p] = "idle"]
    /\ UNCHANGED <<configVars, peerVars, closeVars, closeMutex, readers, sweeper, now>>

\* ---- Bring(id): b.mutex.Lock()
BringLock(p) ==
    /\ pc[p] = "idle"
    /\ CanLock
    /\ mutex' = p
    /\ pc' = [pc EXCEPT ![p] = "Bring"]
    /\ ret' = NoRet
    /\ evicted' = NoKey
    /\ swept' = {}
    /\ UNCHANGED <<dataVars, historyVars, configVars, peerVars, closeVars,
                   closeMutex, readers, sweeper, now>>

\* ---- Bring(id): isClosed(), the body, the deferred Unlock
BringBody(p, id) ==
    /\ pc[p] = "Bring"
    /\ CanLockClose
    /\ IF isClosed
       THEN /\ ret' = Ret("Bring", Nil, FALSE)
            /\ UNCHANGED <<dataVars, historyVars>>
       ELSE \E d \in {bringData(Data, id, now)}, r \in {bringResult(Data, id, now)} :
            /\ SetData(d)
            /\ History(d.cache, IF r.ok THEN id ELSE NoKey, NoKey, Nil)
            /\ ret' = Ret("Bring", r.val, r.ok)
    /\ evicted' = NoKey
    /\ swept' = {}
    /\ mutex' = NoProc
    /\ pc' = [pc EXCEPT ![p] = "idle"]
    /\ UNCHANGED <<configVars, peerVars, closeVars, closeMutex, readers, sweeper, now>>

\* ---- Size(): b.mutex.RLock()
SizeRLock(p) ==
    /\ pc[p] = "idle"
    /\ CanRLock
    /\ readers' = readers \cup {p}
    /\ pc' = [pc EXCEPT ![p] = "Size"]
    /\ ret' = NoRet
    /\ evicted' = NoKey
    /\ swept' = {}
    /\ UNCHANGED <<dataVars, historyVars, configVars, peerVars, closeVars,
                   closeMutex, mutex, sweeper, now>>

\* Size, lines 234-238: the value returned
sizeResult(c, u) == IF c THEN 0 ELSE UpdaterSize(u)

\* ---- Size(): isClosed(), the result, the deferred RUnlock
SizeBody(p) ==
    /\ pc[p] = "Size"
    /\ CanLockClose
    /\ ret' = Ret("Size", sizeResult(isClosed, updater), TRUE)
    /\ evicted' = NoKey
    /\ swept' = {}
    /\ readers' = readers \ {p}
    /\ pc' = [pc EXCEPT ![p] = "idle"]
    /\ UNCHANGED <<dataVars, historyVars, configVars, peerVars, closeVars,
                   closeMutex, mutex, sweeper, now>>

\* ---- Clear(): b.mutex.Lock()
ClearLock(p) ==
    /\ pc[p] = "idle"
    /\ CanLock
    /\ mutex' = p
    /\ pc' = [pc EXCEPT ![p] = "Clear"]
    /\ ret' = NoRet
    /\ evicted' = NoKey
    /\ swept' = {}
    /\ UNCHANGED <<dataVars, historyVars, configVars, peerVars, closeVars,
                   closeMutex, readers, sweeper, now>>

\* ---- Clear(): isClosed(), the body, the deferred Unlock
ClearBody(p) ==
    /\ pc[p] = "Clear"
    /\ CanLockClose
    /\ IF isClosed
       THEN UNCHANGED <<dataVars, historyVars>>
       ELSE \E d \in {clearData(Data)} :
            /\ SetData(d)
            /\ History(d.cache, NoKey, NoKey, Nil)
    /\ ret' = Ret("Clear", 0, TRUE)
    /\ evicted' = NoKey
    /\ swept' = {}
    /\ mutex' = NoProc
    /\ pc' = [pc EXCEPT ![p] = "idle"]
    /\ UNCHANGED <<configVars, peerVars, closeVars, closeMutex, readers, sweeper, now>>

\* ---- IsClosed(): isClosed() under b.closeMutex
IsClosed(p) ==
    /\ pc[p] = "idle"
    /\ CanLockClose
    /\ ret' = Ret("IsClosed", 0, isClosed)
    /\ evicted' = NoKey
    /\ swept' = {}
    /\ UNCHANGED <<dataVars, historyVars, configVars, peerVars, closeVars,
                   closeMutex, mutex, readers, sweeper, pc, now>>

\* Close, line 190: the teardown is skipped when b.closed is already set
closeSkips(c) == c

\* Close, lines 198-206: select { case b.stopCleanup <- struct{}{}: default: }
\* then close(b.stopCleanup); sending on or closing a closed channel panics
signalStop(ch) ==
    [len    |-> IF ~ch.closed /\ ch.len < 1 THEN ch.len + 1 ELSE ch.len,
     closed |-> TRUE,
     panic  |-> ch.closed]

\* ---- Close(): b.closeMutex.Lock(), the closed check, the stop signal
CloseBegin(p) ==
    /\ pc[p] = "idle"
    /\ CanLockClose
    /\ IF closeSkips(closed)
       THEN /\ ret' = Ret("Close", 0, TRUE)
            /\ closeDone' = TRUE
            /\ UNCHANGED <<closed, stopCleanup, panicked, teardowns, closeMutex, pc>>
       ELSE LET ch == signalStop(stopCleanup) IN
            /\ closed' = TRUE
            /\ stopCleanup' = [len |-> ch.len, closed |-> ch.closed]
            /\ panicked' = (panicked \/ ch.panic)
            /\ teardowns' = teardowns + 1
            /\ closeMutex' = p
            /\ pc' = [pc EXCEPT ![p] = "Close"]
            /\ ret' = NoRet
            /\ UNCHANGED closeDone
    /\ evicted' = NoKey
    /\ swept' = {}
    /\ UNCHANGED <<dataVars, historyVars, configVars, peerVars, mutex, readers, sweeper, now>>

\* ---- Close(): b.mutex.Lock(), clear, Unlock, deferred closeMutex.Unlock
CloseClear(p) ==
    /\ pc[p] = "Close"
    /\ CanLock
    /\ \E d \in {clearData(Data)} :
       /\ SetData(d)
       /\ History(d.cache, NoKey, NoKey, Nil)
    /\ closeMutex' = NoProc
    /\ pc' = [pc EXCEPT ![p] = "idle"]
    /\ ret' = Ret("Close", 0, TRUE)
    /\ evicted' = NoKey
    /\ swept' = {}
    /\ closeDone' = TRUE
    /\ UNCHANGED <<configVars, peerVars, closed, stopCleanup, panicked, teardowns,
                   mutex, readers, sweeper, now>>

\* ---- startCleanup: case <-ticker.C
TickerFire ==
    /\ sweeper = "select"
    /\ sweeper' = "ticked"
    /\ ret' = NoRet
    /\ evicted' = NoKey
    /\ swept' = {}
    /\ UNCHANGED <<dataVars, historyVars, configVars, peerVars, closeVars,
                   closeMutex, mutex, readers, pc, now>>

\* ---- startCleanup: case <-b.stopCleanup (a value, or the channel is closed)
SweeperStop ==
    /\ sweeper = "select"
    /\ stopCleanup.len > 0 \/ stopCleanup.closed
    /\ stopCleanup' = [stopCleanup EXCEPT !.len = IF @ > 0 THEN @ - 1 ELSE @]
    /\ sweeper' = "stopped"
    /\ ret' = NoRet
    /\ evicted' = NoKey
    /\ swept' = {}
    /\ UNCHANGED <<dataVars, historyVars, configVars, peerVars, closed, panicked, closeDone,
                   teardowns, closeMutex, mutex, readers, pc, now>>

\* ---- startCleanup: if b.isClosed() { return }
SweeperIsClosed ==
    /\ sweeper = "ticked"
    /\ CanLockClose
    /\ sweeper' = IF isClosed THEN "stopped" ELSE "cleanup"
    /\ ret' = NoRet
    /\ evicted' = NoKey
    /\ swept' = {}
    /\ UNCHANGED <<dataVars, historyVars, configVars, peerVars, closeVars,
                   closeMutex, mutex, readers, pc, now>>

\* cleanupExpired, line 160: b.closed is read under b.mutex only, while Close
\* writes it (line 194) under b.closeMutex only.  The write is ordered before
\* the read once that Close has gone through b.mutex (lines 208-212); until
\* then the two are a data race and the read yields the old or the new value.
closedReads ==
    IF closed /\ \E p \in Procs : pc[p] = "Close" THEN {TRUE, FALSE} ELSE {closed}

\* ---- cleanupExpired(): Lock, the read of b.closed, the sweep, Unlock
CleanupExpired ==
    /\ sweeper = "cleanup"
    /\ CanLock
    /\ \E c \in closedReads :
          IF c
          THEN /\ UNCHANGED <<dataVars, historyVars>>
               /\ swept' = {}
          ELSE \E d \in {cleanupData(Data, now)} :
               /\ SetData(d)
               /\ History(d.cache, NoKey, NoKey, Nil)
               /\ swept' = expiredKeys(Data, now)
    /\ sweeper' = "select"
    /\ ret' = NoRet
    /\ evicted' = NoKey
    /\ UNCHANGED <<configVars, peerVars, closeVars, closeMutex, mutex, readers, pc, now>>

Next ==
    \/ Tick
    \/ \E p \in Procs : NailLock(p)
    \/ \E p \in Procs, id \in Keys, data \in Values : NailBody(p, id, data)
    \/ \E p \in Procs : BringLock(p)
    \/ \E p \in Procs, id \in Keys : BringBody(p, id)
    \/ \E p \in Procs : SizeRLock(p)
    \/ \E p \in Procs : SizeBody(p)
    \/ \E p \in Procs : ClearLock(p)
    \/ \E p \in Procs : ClearBody(p)
    \/ \E p \in Procs : IsClosed(p)
    \/ \E p \in Procs : CloseBegin(p)
    \/ \E p \in Procs : CloseClear(p)
    \/ TickerFire
    \/ SweeperStop
    \/ SweeperIsClosed
    \/ CleanupExpired

Spec == Init /\ [][Next]_vars

SeqSpec == SeqInit /\ [][Next]_vars

NeverSpec == NeverInit /\ [][Next]_vars

\* the steps by which client p leaves a critical section it is in
ClientStep(p) ==
    \/ \E id \in Keys, data \in Values : NailBody(p, id, data)
    \/ \E id \in Keys : BringBody(p, id)
    \/ SizeBody(p)
    \/ ClearBody(p)
    \/ CloseClear(p)

\* Scheduling: the ticker keeps firing while the sweeper waits in its select,
\* a goroutine that can run does run, and a goroutine waiting in
\* b.mutex.Lock() gets the lock if it is released again and again (sync.Mutex
\* hands the lock to a starving waiter).
Fairness ==
    /\ WF_vars(TickerFire)
    /\ WF_vars(SweeperStop)
    /\ WF_vars(SweeperIsClosed)
    /\ SF_vars(CleanupExpired)
    /\ \A p \in Procs : WF_vars(ClientStep(p))

FairSeqSpec == SeqInit /\ [][Next]_vars /\ Fairness

\* ------------------------------------------- an Updater used on its own
\* A caller other than Bucket drives a strategy through the Updater interface
\* with arbitrary items: Add of an item not yet tracked, and Access, Remove,
\* Evict, Size and Clear at any time.  The bucket itself stays unused.
UpdaterInit ==
    /\ Start
    /\ OneBucket
    /\ neverExpire = FALSE
    /\ pc = [p \in Procs |-> "off"]

bucketVars == <<peerVars, maxSize, neverExpire, cache, heap, closed, closeMutex, mutex,
                readers, stopCleanup, sweeper, pc, now, panicked,
                touchOrder, arrivalOrder, lastPut, evicted, swept, closeDone,
                teardowns>>

UAdd(item) ==
    /\ item \notin Referenced(updater)
    /\ updater' = UpdaterAdd(updater, item)
    /\ ret' = Ret("Add", item, TRUE)
    /\ UNCHANGED bucketVars

UAccess(item) ==
    /\ updater' = UpdaterAccess(updater, item)
    /\ ret' = Ret("Access", item, item \in Referenced(updater))
    /\ UNCHANGED bucketVars

URemove(item) ==
    /\ updater' = UpdaterRemove(updater, item)
    /\ ret' = Ret("Remove", item, item \in Referenced(updater))
    /\ UNCHANGED bucketVars

UEvict ==
    /\ \E r \in {UpdaterEvict(updater)} :
          /\ updater' = r.u
          /\ ret' = Ret("Evict", r.item, r.item # Nil)
    /\ UNCHANGED bucketVars

USize ==
    /\ ret' = Ret("Size", UpdaterSize(updater), TRUE)
    /\ UNCHANGED <<updater, bucketVars>>

UClear ==
    /\ updater' = UpdaterClear(updater)
    /\ ret' = Ret("Clear", 0, TRUE)
    /\ UNCHANGED bucketVars

UpdaterNext ==
    \/ \E item \in ItemIds : UAdd(item)
    \/ \E item \in ItemIds : UAccess(item)
    \/ \E item \in ItemIds : URemove(item)
    \/ UEvict
    \/ USize
    \/ UClear

UpdaterSpec == UpdaterInit /\ [][UpdaterNext]_vars

\* ------------------------------------------- two buckets in one program
\* The program calls NewBucket twice, each time with the default options or
\* with WithFIFOUpdater, and uses both buckets.  A Bucket holds a pointer to
\* its Updater: updaters maps the address of an Updater object to the
\* object, and the updater field of a bucket is such an address.  The calls
\* on a bucket run under that bucket's own lock, one at a time, and are one
\* step each here.  Each bucket has its own CacheItems.
BucketIds   == {1, 2}
UpdaterRefs == {1, 2}
PeerKeys    == {"A", "B"}
PeerValues  == {1}
NoUpdater   == [kind |-> "none"]

\* mutant: every call returns the address of one and the same Updater object
newUpdaterRefShared(us) ==
    CHOOSE r \in UpdaterRefs : \A q \in UpdaterRefs : r <= q

\* newLRUUpdater[T]() / newFIFO[T](): the address of a newly allocated object
newUpdaterRef(us) ==
    CHOOSE r \in UpdaterRefs :
        /\ us[r] = NoUpdater
        /\ \A q \in UpdaterRefs : us[q] = NoUpdater => r <= q

\* NewBucket(), NewBucket(WithFIFOUpdater()): the bucket and the objects after
NewBucket(us, kind, cap) ==
    LET r == newUpdaterRef(us) IN
    [b  |-> [maxSize |-> cap,
             cache   |-> emptyCache,
             heap    |-> [i \in ItemIds |-> NoItem],
             updater |-> r,
             closed  |-> FALSE],
     us |-> [us EXCEPT ![r] = IF kind = "lru" THEN newLRUUpdater ELSE newFIFO]]

TwoInit ==
    /\ Start
    /\ maxSize = MaxCap
    /\ updater = newLRUUpdater
    /\ neverExpire = FALSE
    /\ pc = [p \in Procs |-> "off"]
    /\ \E k1, k2 \in {"lru", "fifo"}, c1, c2 \in 1..MaxCap :
          LET n1 == NewBucket([r \in UpdaterRefs |-> NoUpdater], k1, c1)
              n2 == NewBucket(n1.us, k2, c2)
          IN  /\ buckets = [b \in BucketIds |-> IF b = 1 THEN n1.b ELSE n2.b]
              /\ updaters = n2.us

\* the data bucket b works on: its table, its items, the updater it points to
BucketData(b) ==
    [cache   |-> buckets[b].cache,
     heap    |-> buckets[b].heap,
     updater |-> updaters[buckets[b].updater]]

SetBucketData(b, d) ==
    /\ buckets' = [buckets EXCEPT ![b].cache = d.cache, ![b].heap = d.heap]
    /\ updaters' = [updaters EXCEPT ![buckets[b].updater] = d.updater]

soloVars == <<maxSize, neverExpire, cache, heap, updater, closed, closeMutex,
              mutex, readers, stopCleanup, sweeper, pc, panicked, touchOrder,
              arrivalOrder, lastPut, evicted, swept, closeDone, teardowns>>

BucketNail(b, id, data) ==
    /\ IF buckets[b].closed
       THEN /\ ret' = Ret("Nail", 0, FALSE)
            /\ UNCHANGED peerVars
       ELSE /\ nailRoom(BucketData(b), id, buckets[b].maxSize)
            /\ \E d \in {nailData(BucketData(b), id, data, now, buckets[b].maxSize)} :
                  SetBucketData(b, d)
            /\ ret' = Ret("Nail", 0, TRUE)
    /\ UNCHANGED <<soloVars, now>>

BucketBring(b, id) ==
    /\ IF buckets[b].closed
       THEN /\ ret' = Ret("Bring", Nil, FALSE)
            /\ UNCHANGED peerVars
       ELSE \E d \in {bringData(BucketData(b), id, now)},
               r \in {bringResult(BucketData(b), id, now)} :
            /\ SetBucketData(b, d)
            /\ ret' = Ret("Bring", r.val, r.ok)
    /\ UNCHANGED <<soloVars, now>>

BucketSize(b) ==
    /\ ret' = Ret("Size", sizeResult(buckets[b].closed, BucketData(b).updater), TRUE)
    /\ UNCHANGED <<soloVars, peerVars, now>>

BucketClear(b) ==
    /\ IF buckets[b].closed
       THEN UNCHANGED peerVars
       ELSE \E d \in {clearData(BucketData(b))} : SetBucketData(b, d)
    /\ ret' = Ret("Clear", 0, TRUE)
    /\ UNCHANGED <<soloVars, now>>

\* one tick of bucket b's cleanup goroutine
BucketCleanup(b) ==
    /\ ~buckets[b].closed
    /\ \E d \in {cleanupData(BucketData(b), now)} : SetBucketData(b, d)
    /\ ret' = NoRet
    /\ UNCHANGED <<soloVars, now>>

BucketClose(b) ==
    /\ IF closeSkips(buckets[b].closed)
       THEN UNCHANGED peerVars
       ELSE \E d \in {clearData(BucketData(b))} :
            /\ buckets' = [buckets EXCEPT ![b].cache = d.cache,
                                          ![b].heap = d.heap,
                                          ![b].closed = TRUE]
            /\ updaters' = [updaters EXCEPT ![buckets[b].updater] = d.updater]
    /\ ret' = Ret("Close", 0, TRUE)
    /\ UNCHANGED <<soloVars, now>>

\* some call on bucket b, or a tick of its cleanup goroutine
BucketStep(b) ==
    \/ \E id \in PeerKeys, data \in PeerValues : BucketNail(b, id, data)
    \/ \E id \in PeerKeys : BucketBring(b, id)
    \/ BucketSize(b)
    \/ BucketClear(b)
    \/ BucketCleanup(b)
    \/ BucketClose(b)

TwoNext ==
    \/ Tick
    \/ \E b \in BucketIds, id \in PeerKeys, data \in PeerValues : BucketNail(b, id, data)
    \/ \E b \in BucketIds, id \in PeerKeys : BucketBring(b, id)
    \/ \E b \in BucketIds : BucketSize(b)
    \/ \E b \in BucketIds : BucketClear(b)
    \/ \E b \in BucketIds : BucketCleanup(b)
    \/ \E b \in BucketIds : BucketClose(b)

TwoSpec == TwoInit /\ [][TwoNext]_vars

\* ================================================================== claims
DataNext == [cache |-> cache', heap |-> heap', updater |-> updater']
TableItems(c) == {c[k] : k \in Present(c)}
NoDuplicates(q) == \A i, j \in 1..Len(q) : i # j => q[i] # q[j]
DataLockFree == mutex = NoProc /\ readers = {}

\* C1 -- Table/strategy parity.  Whenever no operation holds the data lock,
\* the entries in the key table are exactly the entries the strategy tracks,
\* each tracked once (for the lru: one list node and one nodeMap entry each),
\* distinct keys hold distinct entries, and the number of keys in the table
\* equals strategy.Size().
C1_Parity ==
    DataLockFree =>
        /\ SeqToSet(Tracked(updater)) = TableItems(cache)
        /\ NoDuplicates(Tracked(updater))
        /\ Referenced(updater) = TableItems(cache)
        /\ \A k1, k2 \in Present(cache) : cache[k1] = cache[k2] => k1 = k2
        /\ Cardinality(Present(cache)) = UpdaterSize(updater)

\* a full table at the end of the clock, just after a Get hit
C1_Witness ==
    /\ DataLockFree
    /\ Cardinality(Present(cache)) = MaxCap
    /\ now = MaxTime
    /\ ret = Ret("Bring", 1, TRUE)

\* C2 -- Capacity.  For maxSize >= 1, whenever no operation holds the data
\* lock, neither the strategy's size nor the number of keys in the table
\* exceeds maxSize.
C2_Capacity ==
    (DataLockFree /\ maxSize >= 1) =>
        /\ UpdaterSize(updater) <= maxSize
        /\ Cardinality(Present(cache)) <= maxSize

\* a table at capacity just after a Nail that evicted for room
C2_Witness ==
    /\ DataLockFree
    /\ evicted # NoKey
    /\ UpdaterSize(updater) = maxSize
    /\ maxSize = MaxCap

\* C3 -- Deadlock freedom of the two locks.  No reachable state has one caller
\* holding the data lock and waiting for the lifecycle lock while a Close
\* call holds the lifecycle lock and waits for the data lock.
HoldsDataLock(p) == mutex = p \/ p \in readers
C3_NoLockCycle ==
    ~ \E p, q \in Procs :
        /\ p # q
        /\ HoldsDataLock(p)
        /\ pc[p] \in {"Nail", "Bring", "Size", "Clear"}
        /\ closeMutex = q
        /\ pc[q] = "Close"

\* C4 -- Recency (lru) eviction order.  A Nail of a new key into a full lru
\* bucket removes exactly the key whose latest touch (inserting Nail,
\* overwriting Nail, Bring hit) is the oldest, and keeps every other key.
C4_LruEvictsLeastRecent ==
    [][\A p \in Procs, id \in Keys, data \in Values :
          ( /\ NailBody(p, id, data)
            /\ ~closed
            /\ updater.kind = "lru"
            /\ cache[id] = Nil
            /\ Cardinality(Present(cache)) >= maxSize )
          => /\ touchOrder # << >>
             /\ Present(cache') = (Present(cache) \ {touchOrder[1]}) \cup {id}
             /\ evicted' = touchOrder[1]]_vars

\* A was Nailed at time 0 and never again, yet it is B that a later Nail of C
\* evicted: A was touched by a Bring after B's last touch
C4_Witness ==
    /\ updater.kind = "lru"
    /\ maxSize = 2
    /\ evicted = "B"
    /\ touchOrder = <<"A", "C">>
    /\ lastPut["A"].at = 0
    /\ lastPut["C"].at > 0

\* C5 -- Arrival (fifo) eviction order.  A Nail of a new key into a full fifo
\* bucket removes exactly the key inserted earliest, whatever Bring hits and
\* overwriting Nails happened in between, and keeps every other key.
C5_FifoEvictsEarliest ==
    [][\A p \in Procs, id \in Keys, data \in Values :
          ( /\ NailBody(p, id, data)
            /\ ~closed
            /\ updater.kind = "fifo"
            /\ cache[id] = Nil
            /\ Cardinality(Present(cache)) >= maxSize )
          => /\ arrivalOrder # << >>
             /\ Present(cache') = (Present(cache) \ {arrivalOrder[1]}) \cup {id}
             /\ evicted' = arrivalOrder[1]]_vars

\* a full fifo bucket has just evicted A to admit C, and B stays
C5_Witness ==
    /\ updater.kind = "fifo"
    /\ maxSize = 2
    /\ evicted = "A"
    /\ arrivalOrder = <<"B", "C">>
    /\ lastPut["B"].at = 0
    /\ now > 0

\* C6 -- TTL expiration on read.  For a key still in the table since its last
\* Nail(key, v) at time t: a Bring at a time <= t + ttl returns (v, true); a
\* Bring at a time > t + ttl returns not-found, removes the entry from the
\* table and from the strategy, and Size() drops by one.
C6_TtlOnRead ==
    [][\A p \in Procs, id \in Keys :
          ( /\ BringBody(p, id)
            /\ ~closed
            /\ lastPut[id] # NoPut )
          => IF now <= lastPut[id].at + Outdated
             THEN /\ ret' = Ret("Bring", lastPut[id].val, TRUE)
                  /\ cache'[id] = cache[id]
             ELSE /\ ret' = Ret("Bring", Nil, FALSE)
                  /\ cache'[id] = Nil
                  /\ cache[id] \notin Referenced(updater')
                  /\ sizeResult(closed', updater') = sizeResult(closed, updater) - 1]_vars

\* a Bring just found the entry of A expired and removed it
C6_Witness ==
    /\ ret = Ret("Bring", Nil, FALSE)
    /\ now > Outdated
    /\ cache["A"] = Nil
    /\ cache["B"] # Nil
    /\ lastPut["B"].at = now
    /\ ~closed
    /\ sweeper = "select"
    /\ UpdaterSize(updater) = 1
    /\ maxSize = 2

\* C7 -- Overwrite semantics.  A Nail(key, v2) on a key present in the table
\* keeps Size() and the set of keys, evicts nothing (also at capacity),
\* updates the existing entry in place and leaves the other entries as they
\* were, makes the entry the most recently used one of an lru, and a Bring of
\* the key right after it returns (v2, true).
C7_Overwrite ==
    [][\A p \in Procs, id \in Keys, data \in Values :
          ( /\ NailBody(p, id, data)
            /\ ~closed
            /\ cache[id] # Nil )
          => /\ sizeResult(closed', updater') = sizeResult(closed, updater)
             /\ cache' = cache
             /\ evicted' = NoKey
             /\ swept' = {}
             /\ heap'[cache[id]].key = id
             /\ heap'[cache[id]].value = data
             /\ \A k \in Present(cache) \ {id} : heap'[cache[k]] = heap[cache[k]]
             /\ SeqToSet(Tracked(updater')) = SeqToSet(Tracked(updater))
             /\ updater.kind = "lru" =>
                   Tracked(updater')[Len(Tracked(updater'))] = cache[id]
             /\ bringResult(DataNext, id, now) = [val |-> data, ok |-> TRUE]
             /\ ret' = Ret("Nail", 0, TRUE)]_vars

\* a full bucket in which B has just been overwritten with value 2, later
\* than the last Nail of A
C7_Witness ==
    /\ ret = Ret("Nail", 0, TRUE)
    /\ evicted = NoKey
    /\ UpdaterSize(updater) = maxSize
    /\ maxSize = MaxCap
    /\ cache["A"] # Nil
    /\ cache["B"] # Nil
    /\ heap[cache["B"]].value = 2
    /\ lastPut["B"] = [val |-> 2, at |-> now]
    /\ lastPut["A"].at < now

\* C8 -- Idempotent, concurrency-safe Close.  One Close call at most runs the
\* teardown, nothing panics, a Close that has returned leaves the bucket
\* closed with Size() 0, and every Close call returns: a Close call that has
\* started can take its last step as soon as the holders of the data lock,
\* if any, have taken theirs, and these are never blocked.
DataLockReleasable ==
    \/ CanLock
    \/ ENABLED (\E q \in Procs :
                   \/ \E id \in Keys, data \in Values : NailBody(q, id, data)
                   \/ \E id \in Keys : BringBody(q, id)
                   \/ SizeBody(q)
                   \/ ClearBody(q))

C8_CloseReturnsOnce ==
    /\ teardowns <= 1
    /\ ~panicked
    /\ closeDone => (closed /\ stopCleanup.closed /\ sizeResult(closed, updater) = 0)
    /\ \A p \in Procs : pc[p] = "Close" => DataLockReleasable

\* C9 -- Nail on a closed bucket.  A Nail that runs after a Close call has
\* returned fails with ErrBucketClosed and changes neither the key table nor
\* the strategy, which are both empty.
C9_NailAfterClose ==
    [][\A p \in Procs, id \in Keys, data \in Values :
          (NailBody(p, id, data) /\ closeDone)
          => /\ ret' = Ret("Nail", 0, FALSE)
             /\ UNCHANGED dataVars
             /\ cache' = emptyCache
             /\ Tracked(updater') = << >>
             /\ UpdaterSize(updater') = 0]_vars

\* a Nail has just been refused after Close returned
C9_Witness ==
    /\ closeDone
    /\ ret = Ret("Nail", 0, FALSE)

\* C10 -- Bring, Size and Clear on a closed bucket.  After a Close call has
\* returned, Bring returns not-found for every key, Size returns 0, Clear
\* changes nothing, none of them changes the table or the strategy, and
\* nothing panics.
C10_ReadsAfterClose ==
    [][closeDone =>
          /\ \A p \in Procs, id \in Keys :
                BringBody(p, id) => (ret' = Ret("Bring", Nil, FALSE) /\ UNCHANGED dataVars)
          /\ \A p \in Procs :
                SizeBody(p) => (ret' = Ret("Size", 0, TRUE) /\ UNCHANGED dataVars)
          /\ \A p \in Procs :
                ClearBody(p) => (ret' = Ret("Clear", 0, TRUE) /\ UNCHANGED dataVars)
          /\ ~panicked']_vars

\* a Bring has just missed on a closed bucket
C10_Witness ==
    /\ closeDone
    /\ ret = Ret("Bring", Nil, FALSE)

\* C11 -- No mutation after Close returns.  In every state after a Close call
\* has returned, the key table is empty and the strategy is a freshly cleared
\* one, whatever calls and sweeper ticks were in flight or came later: no
\* step changes either structure any more.
C11_NoMutationAfterClose ==
    closeDone =>
        /\ cache = emptyCache
        /\ heap = [i \in ItemIds |-> NoItem]
        /\ updater \in {newLRUUpdater, newFIFO}
        /\ UpdaterSize(updater) = 0

\* Close has returned while a sweeper tick that had passed its isClosed()
\* check is about to run cleanupExpired, and a client is inside a call
C11_Witness ==
    /\ closeDone
    /\ sweeper = "cleanup"
    /\ mutex # NoProc
    /\ now = MaxTime

\* C12 -- Closed is permanent.  No step takes b.closed from true back to
\* false, and every IsClosed() call returns the current value of b.closed: so
\* once IsClosed() has returned true, every later call returns true.
C12_ClosedIsPermanent ==
    [][/\ closed => closed'
       /\ \A p \in Procs : IsClosed(p) => ret' = Ret("IsClosed", 0, closed')]_vars

\* IsClosed() has just returned true, after Close returned and time passed
C12_Witness ==
    /\ ret = Ret("IsClosed", 0, TRUE)
    /\ closeDone
    /\ now = MaxTime
    /\ sweeper = "stopped"

\* C13 -- Never-expire mode.  In a bucket built with the never-expire option
\* every entry carries the unbounded deadline, a Bring of a key in the table
\* of an open bucket always hits, no sweep removes a key, and a key leaves the
\* table only by capacity eviction in Nail, by Clear or by Close.
C13_NeverExpire ==
    [][neverExpire =>
          /\ \A k \in Present(cache') : heap'[cache'[k]].expiredAt = Forever
          /\ \A p \in Procs, id \in Keys :
                (BringBody(p, id) /\ ~closed /\ cache[id] # Nil)
                => (ret' = Ret("Bring", lastPut[id].val, TRUE) /\ cache' = cache)
          /\ swept' = {}
          /\ \A k \in Present(cache) \ Present(cache') :
                \/ evicted' = k
                \/ \E p \in Procs : ClearBody(p) \/ CloseClear(p)]_vars

\* in never-expire mode a Bring has just hit A at the end of the clock, more
\* than the ttl after its only Nail, with sweeps having run in between
C13_Witness ==
    /\ neverExpire
    /\ ret = Ret("Bring", 1, TRUE)
    /\ Present(cache) = {"A"}
    /\ lastPut["A"].at = 0
    /\ now = MaxTime
    /\ now > Outdated
    /\ sweeper = "select"

\* C14 as stated -- TTL is measured from the last write or touch: a Bring hit
\* at time t keeps the entry live until t + ttl, as a Nail at time t does.
C14_TtlFromLastTouch ==
    [][\A p \in Procs, id \in Keys :
          (BringBody(p, id) /\ ~closed /\ ret' = Ret("Bring", ret'.val, TRUE))
          => ~isExpired(heap'[cache'[id]], now + Outdated)]_vars

\* C14 as amended -- TTL is measured from the last Nail of the key only.  In a
\* bucket with a ttl the deadline of every entry in the table is the time of
\* the latest Nail of its key plus the ttl, and a Bring, hit or miss, changes
\* no deadline and no value of an entry that stays.
C14_TtlFromLastPut ==
    [][~neverExpire =>
          /\ \A k \in Present(cache') :
                heap'[cache'[k]].expiredAt = lastPut'[k].at + Outdated
          /\ \A p \in Procs, id \in Keys :
                BringBody(p, id) =>
                   \A k \in Present(cache') :
                      cache'[k] = cache[k] /\ heap'[cache[k]] = heap[cache[k]]]_vars

\* a Bring has just hit A exactly ttl after its only Nail; the entry still
\* carries the deadline that Nail gave it
C14_Witness ==
    /\ ~neverExpire
    /\ ret = Ret("Bring", 1, TRUE)
    /\ Present(cache) = {"A"}
    /\ lastPut["A"].at = 0
    /\ now = Outdated
    /\ heap[cache["A"]].expiredAt = Outdated

\* C15 -- Sweeper liveness.  In an open bucket with a ttl, an entry whose
\* deadline has passed does not stay: under fair scheduling it is eventually
\* out of the table and of the strategy (or the bucket is closed, or its key
\* is Nailed afresh), also when no client ever touches the key again.
Stale(k) ==
    /\ cache[k] # Nil
    /\ isExpired(heap[cache[k]], now)

Gone(k) ==
    \/ closed
    \/ cache[k] = Nil /\ (\A i \in Referenced(updater) : heap[i].key # k)
    \/ cache[k] # Nil /\ ~isExpired(heap[cache[k]], now)

C15_SweeperLiveness ==
    \A k \in Keys : (Stale(k) /\ ~closed) ~> Gone(k)

\* a sweep has just removed the expired entry of A from an open bucket
C15_Witness ==
    /\ swept = {"A"}
    /\ ~closed
    /\ cache["A"] = Nil
    /\ UpdaterSize(updater) = 0
    /\ ~neverExpire

\* C16 -- Sweeper termination.  The sweeper leaves its loop only after Close
\* was called, and after Close was called it eventually does: wherever it
\* stands in the loop, the lock it needs next is free or its holder can go
\* on and release it.  (A sweeper waiting for a lock whose holder can never
\* release it stays in the loop for ever, whatever the scheduling.)
CloseLockReleasable ==
    \/ CanLockClose
    \/ \E q \in Procs : pc[q] = "Close" /\ closeMutex = q /\ DataLockReleasable

C16_SweeperLeavesLoop ==
    /\ sweeper = "stopped" => closed
    /\ (closed /\ sweeper = "ticked") => CloseLockReleasable
    /\ (closed /\ sweeper = "cleanup") => DataLockReleasable

\* C17 -- Mutual exclusion on the data.  A client is inside Nail, Bring or
\* Clear exactly while it holds b.mutex exclusively and inside Size exactly
\* while it holds it shared; an exclusive holder excludes every reader and
\* every other holder.  The key table and the strategy change only in a step
\* of the exclusive holder, or in a sweeper tick or the clearing step of Close
\* taken while nobody holds the lock in either mode.
Exclusion ==
    /\ \A p \in Procs : pc[p] \in {"Nail", "Bring", "Clear"} <=> mutex = p
    /\ \A p \in Procs : pc[p] = "Size" <=> p \in readers
    /\ mutex # NoProc => readers = {}

C17_MutualExclusion ==
    [][/\ Exclusion'
       /\ dataVars' # dataVars =>
             /\ readers = {}
             /\ \/ mutex # NoProc /\ mutex' = NoProc
                \/ /\ mutex = NoProc
                   /\ mutex' = NoProc
                   /\ CleanupExpired \/ \E p \in Procs : CloseClear(p)]_vars

\* a sweep has just removed A while the other entry stayed, and the lock is
\* free again; a client had been inside Size before
C17_Witness ==
    /\ swept = {"A"}
    /\ Cardinality(Present(cache)) = 1
    /\ DataLockFree
    /\ maxSize = MaxCap
    /\ pc = [p \in Procs |-> "idle"]

WriterWaits == sweeper = "cleanup" \/ \E q \in Procs : pc[q] = "Close"

C19_LockOrder ==
    [][/\ \A p \in Procs :
             (HoldsDataLock(p) /\ HoldsDataLock(p)') => UNCHANGED dataVars
       /\ \A p \in Procs, id \in Keys :
             (BringBody(p, id) /\ ~closed /\ id \in Present(cache)
                /\ ~isExpired(heap[cache[id]], now))
             => ret' = Ret("Bring", lastPut[id].val, TRUE)
       /\ \A p \in Procs :
             (SizeBody(p) /\ ~closed)
             => ret' = Ret("Size", Cardinality(Present(cache)), TRUE)]_vars

\* with no time passed since the bucket was built, a Bring has just returned
\* 2 for A, the value of the Nail of A that held the lock last
C19_Witness ==
    /\ now = 0
    /\ ret = Ret("Bring", 2, TRUE)
    /\ lastPut["A"] = [val |-> 2, at |-> 0]
    /\ Present(cache) = {"A"}
    /\ pc = [p \in Procs |-> "idle"]
    /\ updater.kind = "lru"

\* C20 -- Strategy edge cases, lru and fifo alike.  Evict on an empty
\* ordering returns nil and leaves the strategy as it was, with Size() 0;
\* Remove of an item that is not tracked leaves the ordering and Size() as
\* they were; Size() is never negative.
C20_UpdaterEdgeCases ==
    [][/\ (UEvict /\ UpdaterSize(updater) = 0)
          => /\ ret' = Ret("Evict", Nil, FALSE)
             /\ updater' = updater
             /\ UpdaterSize(updater') = 0
       /\ \A item \in ItemIds :
             (URemove(item) /\ item \notin Referenced(updater))
             => /\ Tracked(updater') = Tracked(updater)
                /\ UpdaterSize(updater') = UpdaterSize(updater)
                /\ updater' = updater
       /\ UpdaterSize(updater') >= 0]_vars

\* Remove has just been called with an item the lru did not track, while it
\* tracked two others
C20_Witness ==
    /\ ret.op = "Remove"
    /\ ~ret.ok
    /\ updater.kind = "lru"
    /\ UpdaterSize(updater) = 2
    /\ ret.val \notin Referenced(updater)

\* the keys of the items the strategy tracks, next eviction victim first
EvictionOrder(d) ==
    [i \in 1..Len(Tracked(d.updater)) |-> d.heap[Tracked(d.updater)[i]].key]

\* the data of a bucket that NewBucket has just built with this strategy
FreshData(kind) ==
    [cache   |-> emptyCache,
     heap    |-> [i \in ItemIds |-> NoItem],
     updater |-> IF kind = "lru" THEN newLRUUpdater ELSE newFIFO]

\* C21 -- Clear on an open bucket.  One step of the holder of the data lock
\* empties the key table and the strategy together and leaves the data as
\* NewBucket built it: Size() is 0 and a Bring of any key misses; the bucket
\* stays open (b.closed false, stop channel untouched, sweeper where it was
\* in its loop); a Nail that comes next is admitted without eviction and its
\* key is alone in the eviction order.
C21_ClearOpen ==
    [][\A p \in Procs :
          (ClearBody(p) /\ ~closed)
          => /\ DataNext = FreshData(updater.kind)
             /\ sizeResult(closed', updater') = 0
             /\ \A id \in Keys :
                   bringResult(DataNext, id, now) = [val |-> Nil, ok |-> FALSE]
             /\ ~closed'
             /\ stopCleanup' = stopCleanup
             /\ sweeper' = sweeper
             /\ sweeper' # "stopped"
             /\ \A id \in Keys, data \in Values :
                   /\ nailRoom(DataNext, id, maxSize)
                   /\ evictedKey(DataNext, id, maxSize) = NoKey
                   /\ EvictionOrder(nailData(DataNext, id, data, now, maxSize)) = <<id>>
             /\ touchOrder' = << >>
             /\ arrivalOrder' = << >>]_vars

\* a Clear has just returned on an open bucket whose sweeper is about to run
\* cleanupExpired, at the end of the clock
C21_Witness ==
    /\ ret = Ret("Clear", 0, TRUE)
    /\ ~closed
    /\ cache = emptyCache
    /\ sweeper = "cleanup"
    /\ now = MaxTime
    /\ maxSize = MaxCap

\* C22 -- Bring returns what was last stored.  Every entry of the table
\* carries its own key and the value of the latest Nail of that key, and a
\* Bring that returns found returns that value: never the value of another
\* key, never a value from before an overwrite.
C22_BringReturnsLastPut ==
    [][/\ \A k \in Present(cache') :
             /\ heap'[cache'[k]].key = k
             /\ lastPut'[k] # NoPut
             /\ heap'[cache'[k]].value = lastPut'[k].val
       /\ \A p \in Procs, id \in Keys :
             (BringBody(p, id) /\ ret'.ok)
             => /\ lastPut[id] # NoPut
                /\ ret'.val = lastPut[id].val
                /\ ret'.val = heap[cache[id]].value]_vars

\* a Bring has just returned 1, which is the value of the latest Nail of B
\* (an overwrite at the present time) and not the value 2 stored under A
C22_Witness ==
    /\ ret = Ret("Bring", 1, TRUE)
    /\ Present(cache) = {"A", "B"}
    /\ lastPut["A"].val = 2
    /\ lastPut["B"] = [val |-> 1, at |-> now]
    /\ lastPut["A"].at = now
    /\ arrivalOrder = <<"B", "A">>
    /\ now > 0

\* C23 -- Bucket isolation.  Two buckets built with the default options or
\* with WithFIFOUpdater point to different Updater objects, and no call on
\* one bucket and no tick of its cleanup goroutine changes the other bucket:
\* its key table, its items, its strategy's ordering and its Size() stay.
BucketUntouched(c) ==
    /\ buckets'[c] = buckets[c]
    /\ updaters'[buckets[c].updater] = updaters[buckets[c].updater]
    /\ BucketData(c)' = BucketData(c)
    /\ EvictionOrder(BucketData(c))' = EvictionOrder(BucketData(c))
    /\ sizeResult(buckets[c].closed, BucketData(c).updater)'
          = sizeResult(buckets[c].closed, BucketData(c).updater)

C23_Isolation ==
    [][/\ \A b, c \in BucketIds : b # c => buckets[b].updater # buckets[c].updater
       /\ \A b, c \in BucketIds :
             b # c => (BucketUntouched(c) \/ ~BucketStep(b))]_vars

\* an lru bucket and a fifo bucket, both of capacity 1: a Nail on the first
\* has just evicted there, and the second still holds its entry for A
C23_Witness ==
    /\ ret = Ret("Nail", 0, TRUE)
    /\ updaters[buckets[1].updater].kind = "lru"
    /\ updaters[buckets[2].updater].kind = "fifo"
    /\ buckets[1].maxSize = 1
    /\ buckets[2].maxSize = 1
    /\ Present(buckets[1].cache) = {"B"}
    /\ buckets[1].heap[buckets[1].cache["B"]].expiredAt = now + Outdated
    /\ Present(buckets[2].cache) = {"A"}
    /\ buckets[2].heap[buckets[2].cache["A"]].expiredAt < now + Outdated
    /\ EvictionOrder(BucketData(2)) = <<"A">>
    /\ now = MaxTime

C25_SweepPrecision ==
    [][(CleanupExpired /\ ~closed)
       => LET stale == {k \in Present(cache) : heap[cache[k]].expiredAt < now}
          IN  /\ swept' = stale
              /\ Present(cache') = Present(cache) \ stale
              /\ EvictionOrder(DataNext) =
                    SelectSeq(EvictionOrder(Data), LAMBDA k : k \notin stale)
              /\ UpdaterSize(updater') = Cardinality(Present(cache) \ stale)
              /\ \A k \in Present(cache) \ stale :
                    /\ cache'[k] = cache[k]
                    /\ heap'[cache'[k]] = heap[cache[k]]
                    /\ heap'[cache'[k]].value = lastPut[k].val
              /\ ~closed'
              /\ sweeper' = "select"]_vars

\* a sweep of a fifo bucket has just removed B, which arrived after A: A was
\* overwritten later and is still live
C25_Witness ==
    /\ swept = {"B"}
    /\ ~closed
    /\ updater.kind = "fifo"
    /\ Present(cache) = {"A"}
    /\ EvictionOrder(Data) = <<"A">>
    /\ lastPut["A"].at > 0
    /\ heap[cache["A"]].expiredAt >= now
    /\ sweeper = "select"

\* C26 -- Expiry boundary.  Expiry is strict: at the instant of its deadline
\* (now = expiredAt) an entry is live, a Bring of its key returns its value
\* and leaves it in the table, and a run of cleanupExpired keeps it; only at
\* a later time does the Bring miss and remove it and the sweep remove it.
C26_ExpiryBoundary ==
    [][/\ \A p \in Procs, id \in Keys :
             (BringBody(p, id) /\ ~closed /\ cache[id] # Nil)
             => LET item == heap[cache[id]]
                IN  /\ now = item.expiredAt =>
                          /\ ret' = Ret("Bring", item.value, TRUE)
                          /\ cache'[id] = cache[id]
                          /\ heap'[cache[id]] = item
                    /\ now > item.expiredAt =>
                          /\ ret' = Ret("Bring", Nil, FALSE)
                          /\ cache'[id] = Nil
       /\ (CleanupExpired /\ ~closed)
             => \A k \in Present(cache) :
                   /\ now = heap[cache[k]].expiredAt =>
                         /\ k \notin swept'
                         /\ cache'[k] = cache[k]
                         /\ heap'[cache[k]] = heap[cache[k]]
                   /\ now > heap[cache[k]].expiredAt =>
                         /\ k \in swept'
                         /\ cache'[k] = Nil]_vars

\* at the end of the clock a Bring has just returned the value 2 of A, whose
\* deadline is this very instant
C26_Witness ==
    /\ ret = Ret("Bring", 2, TRUE)
    /\ Present(cache) = {"A"}
    /\ heap[cache["A"]].expiredAt = now
    /\ lastPut["A"] = [val |-> 2, at |-> now - Outdated]
    /\ now = MaxTime
    /\ sweeper = "select"
    /\ ~closed

\* C27 -- Nail refreshes the deadline.  In a bucket with a ttl every Nail
\* that succeeds at time t, insert or overwrite, leaves the entry of its key
\* with the deadline t + ttl and the value of the call: a Bring of the key
\* would hit at every time up to t + ttl and miss after it, however long
\* before t the key was first inserted.
C27_NailRefreshesDeadline ==
    [][\A p \in Procs, id \in Keys, data \in Values :
          (NailBody(p, id, data) /\ ~neverExpire /\ ret' = Ret("Nail", 0, TRUE))
          => /\ cache'[id] # Nil
             /\ heap'[cache'[id]].expiredAt = now + Outdated
             /\ \A t \in now..(now + Outdated) :
                   bringResult(DataNext, id, t) = [val |-> data, ok |-> TRUE]
             /\ ~bringResult(DataNext, id, now + Outdated + 1).ok
             /\ cache[id] # Nil =>
                   /\ cache'[id] = cache[id]
                   /\ heap[cache[id]].expiredAt <= heap'[cache[id]].expiredAt]_vars

\* A arrived in a fifo bucket before B did and has just been overwritten at
\* the end of the clock, later than B was stored: its deadline counts from now
C27_Witness ==
    /\ ret = Ret("Nail", 0, TRUE)
    /\ ~neverExpire
    /\ Present(cache) = {"A", "B"}
    /\ arrivalOrder = <<"A", "B">>
    /\ lastPut["A"].at = now
    /\ lastPut["B"].at < now
    /\ heap[cache["A"]].expiredAt = now + Outdated
    /\ now = MaxTime

\* C28 -- Nail revives an expired entry in place.  A Nail(key, v) on a key
\* that is still in the table with a deadline that has passed takes the
\* overwrite path: the table, its items and Size() stay, nothing is evicted
\* (also at capacity), the entry gets the deadline of the call, a Bring of
\* the key right after returns (v, true), and a fifo keeps its queue as it
\* is, so the entry keeps its arrival position.
C28_ReviveInPlace ==
    [][\A p \in Procs, id \in Keys, data \in Values :
          ( /\ NailBody(p, id, data)
            /\ ~closed
            /\ cache[id] # Nil
            /\ heap[cache[id]].expiredAt < now )
          => /\ ret' = Ret("Nail", 0, TRUE)
             /\ cache' = cache
             /\ UpdaterSize(updater') = UpdaterSize(updater)
             /\ sizeResult(closed', updater') = sizeResult(closed, updater)
             /\ evicted' = NoKey
             /\ heap'[cache[id]] =
                   [key |-> id, value |-> data, expiredAt |-> deadline(now)]
             /\ bringResult(DataNext, id, now) = [val |-> data, ok |-> TRUE]
             /\ updater.kind = "fifo" =>
                   /\ Tracked(updater') = Tracked(updater)
                   /\ arrivalOrder' = arrivalOrder
                   /\ EvictionOrder(DataNext) = arrivalOrder']_vars

\* a full fifo bucket at the end of the clock: A and B both arrived at time
\* 0, A first; B has expired and is still in the table, and A has just been
\* Nailed again with value 2 and is live, still ahead of B in the queue
C28_Witness ==
    /\ ret = Ret("Nail", 0, TRUE)
    /\ evicted = NoKey
    /\ updater.kind = "fifo"
    /\ maxSize = 2
    /\ EvictionOrder(Data) = <<"A", "B">>
    /\ lastPut["B"].at = 0
    /\ Stale("B")
    /\ lastPut["A"] = [val |-> 2, at |-> now]
    /\ ~Stale("A")
    /\ now = MaxTime

\* C29 -- Capacity eviction ignores expiry.  When a Nail of a new key finds
\* the bucket at capacity, the victim is the head of the strategy's eviction
\* order (lru: least recently touched, fifo: earliest arrival) whatever the
\* deadlines are: every other entry stays, expired or not, also when the
\* victim itself is still live.
C29_EvictionIgnoresExpiry ==
    [][\A p \in Procs, id \in Keys, data \in Values :
          ( /\ NailBody(p, id, data)
            /\ ~closed
            /\ cache[id] = Nil
            /\ UpdaterSize(updater) >= maxSize )
          => LET order == EvictionOrder(Data)
             IN  /\ order # << >>
                 /\ evicted' = order[1]
                 /\ order = IF updater.kind = "lru" THEN touchOrder ELSE arrivalOrder
                 /\ cache'[order[1]] = Nil
                 /\ \A k \in Present(cache) \ {order[1]} :
                       /\ cache'[k] = cache[k]
                       /\ heap'[cache[k]] = heap[cache[k]]
                       /\ Stale(k) => Stale(k)']_vars

\* a Nail of C into a full lru bucket at the end of the clock has just
\* evicted A; B, stored at time 0 only, has expired and is still in the table
C29_Witness ==
    /\ ret = Ret("Nail", 0, TRUE)
    /\ updater.kind = "lru"
    /\ maxSize = 2
    /\ evicted = "A"
    /\ EvictionOrder(Data) = <<"B", "C">>
    /\ lastPut["B"].at = 0
    /\ Stale("B")
    /\ lastPut["C"].at = now
    /\ now = MaxTime

\* C30 -- A Bring miss on an absent key is a pure read.  A Bring of a key
\* that is not in the table returns not-found and changes nothing but the
\* lock it releases: the table, every item with its value and deadline, the
\* strategy and so the eviction order and the next victim, b.closed, the
\* stop channel and the sweeper all stay as they were.
C30_MissIsPureRead ==
    [][\A p \in Procs, id \in Keys :
          (BringBody(p, id) /\ cache[id] = Nil)
          => /\ ret' = Ret("Bring", Nil, FALSE)
             /\ UNCHANGED <<cache, heap, updater>>
             /\ EvictionOrder(DataNext) = EvictionOrder(Data)
             /\ UpdaterEvict(updater').item = UpdaterEvict(updater).item
             /\ UNCHANGED <<touchOrder, arrivalOrder, lastPut>>
             /\ UNCHANGED <<closed, stopCleanup, sweeper, closeMutex>>
             /\ evicted' = NoKey
             /\ swept' = {}]_vars

\* a Bring has just missed on an open, full bucket at the end of the clock:
\* A and B are in the table, A expired and not yet swept, B live, so the key
\* asked for was C
C30_Witness ==
    /\ ret = Ret("Bring", Nil, FALSE)
    /\ ~closed
    /\ maxSize = 2
    /\ Present(cache) = {"A", "B"}
    /\ UpdaterSize(updater) = 2
    /\ Stale("A")
    /\ ~Stale("B")
    /\ now = MaxTime

\* C31 -- Defensive closed check in the sweeper.  A run of cleanupExpired
\* that takes the data lock after b.closed was set removes nothing from the
\* key table or the strategy, also when its tick fired before Close was
\* called.
C31_SweepAfterClosedRemovesNothing ==
    [][(CleanupExpired /\ closed)
       => /\ UNCHANGED <<cache, heap, updater>>
          /\ swept' = {}]_vars

\* the steps in which a goroutine reads or writes b.closed
AccessesClosed ==
    \/ \E p \in Procs, id \in Keys, data \in Values : NailBody(p, id, data)
    \/ \E p \in Procs, id \in Keys : BringBody(p, id)
    \/ \E p \in Procs : SizeBody(p) \/ ClearBody(p) \/ IsClosed(p) \/ CloseBegin(p)
    \/ SweeperIsClosed
    \/ CleanupExpired

\* C32 -- Lifecycle-lock discipline.  Every read and every write of b.closed
\* is made by a goroutine that holds b.closeMutex: no step reads or writes
\* the flag while another goroutine holds that lock, so no access to the
\* flag is concurrent with the critical section of Close that writes it.
C32_ClosedUnderCloseMutex ==
    [][AccessesClosed => closeMutex = NoProc]_vars

\* C33 -- IsClosed never contends with the data lock.  IsClosed() waits for
\* b.closeMutex only, and whoever holds b.closeMutex is never itself waiting
\* for the data lock: so an IsClosed() call is not held up, directly or
\* through a Close in progress, by a holder of the data lock.
C33_IsClosedNeverWaitsForDataLock ==
    \A q \in Procs : closeMutex = q => CanLock

\* C34 -- Expiry on read uses the sweeper's remove path.  In an open bucket
\* in which key k is the only expired entry, a Bring of k and a run of
\* cleanupExpired leave the same data: a Bring step leaves what the sweep
\* would have left and a sweep leaves what the Bring would have left, with k
\* out of the table and of the strategy and every other entry, with its
\* position in the eviction order, as it was.
C34_ReadExpiryIsSweep ==
    [][\A k \in Keys :
          (~closed /\ expiredKeys(Data, now) = {k})
          => /\ (\E p \in Procs : BringBody(p, k))
                   => /\ DataNext = cleanupData(Data, now)
                      /\ ret' = Ret("Bring", Nil, FALSE)
             /\ CleanupExpired => DataNext = bringData(Data, k, now)
             /\ (CleanupExpired \/ \E p \in Procs : BringBody(p, k))
                   => /\ cache'[k] = Nil
                      /\ k \notin SeqToSet(EvictionOrder(DataNext))
                      /\ EvictionOrder(DataNext) =
                            SelectSeq(EvictionOrder(Data), LAMBDA x : x # k)
                      /\ \A x \in Present(cache) \ {k} :
                            /\ cache'[x] = cache[x]
                            /\ heap'[cache[x]] = heap[cache[x]]]_vars

\* at the end of the clock a Bring has just missed in an open fifo bucket
\* of capacity 2 that now holds only B, stored after time 0 and still live
C34_Witness ==
    /\ ret = Ret("Bring", Nil, FALSE)
    /\ ~closed
    /\ updater.kind = "fifo"
    /\ maxSize = 2
    /\ Present(cache) = {"B"}
    /\ EvictionOrder(Data) = <<"B">>
    /\ ~Stale("B")
    /\ lastPut["B"].at < now
    /\ swept = {}
    /\ now = MaxTime

\* C35 -- Key consistency of entries.  In every reachable state the item
\* stored under a key of the table carries that key, no two keys of the
\* table hold the same item, and the table slot named by the key of any item
\* the strategy tracks holds that very item: so deleting the slot named by
\* an evicted item's key removes exactly the evicted entry.
C35_KeyConsistency ==
    /\ \A k \in Present(cache) : heap[cache[k]].key = k
    /\ \A k1, k2 \in Present(cache) : cache[k1] = cache[k2] => k1 = k2
    /\ \A i \in SeqToSet(Tracked(updater)) :
          /\ heap[i].key \in Keys
          /\ cache[heap[i].key] = i
    /\ LET victim == UpdaterEvict(updater).item
       IN  victim # Nil =>
              Present([cache EXCEPT ![heap[victim].key] = Nil])
                 = {k \in Present(cache) : cache[k] # victim}

\* a Nail of C into a full lru bucket has just evicted B at the end of the
\* clock; A and C hold their own items
C35_Witness ==
    /\ evicted = "B"
    /\ updater.kind = "lru"
    /\ maxSize = 2
    /\ Present(cache) = {"A", "C"}
    /\ cache["A"] # cache["C"]
    /\ heap[cache["A"]].key = "A"
    /\ heap[cache["C"]].key = "C"
    /\ now = MaxTime

\* C36 -- No resurrection.  A key removed by capacity eviction, by expiry
\* (in Bring or in a sweep), by Clear or by Close is out of the table after
\* that step; a key that is not in the table comes into it only by a
\* successful Nail of that very key; and a Bring of a key that is not in the
\* table returns not-found.  So a removed key, like a key never Nailed,
\* stays not-found until it is Nailed again.
C36_NoResurrection ==
    [][/\ evicted' # NoKey => cache'[evicted'] = Nil
       /\ \A k \in swept' : cache'[k] = Nil
       /\ \A p \in Procs, id \in Keys :
             (BringBody(p, id) /\ ~ret'.ok) => cache'[id] = Nil
       /\ \A p \in Procs :
             ((ClearBody(p) /\ ~closed) \/ CloseClear(p)) => cache' = emptyCache
       /\ \A k \in Keys :
             (cache[k] = Nil /\ cache'[k] # Nil)
             => /\ \E p \in Procs, data \in Values : NailBody(p, k, data)
                /\ ret' = Ret("Nail", 0, TRUE)
                /\ lastPut'[k].at = now
       /\ \A p \in Procs, id \in Keys :
             (BringBody(p, id) /\ cache[id] = Nil) => ret' = Ret("Bring", Nil, FALSE)
       /\ \A p \in Procs, id \in Keys :
             (BringBody(p, id) /\ ret'.ok) => (cache[id] # Nil /\ lastPut[id] # NoPut)]_vars

\* a Bring has just missed in an open bucket of capacity 1 whose only entry,
\* C, was stored at this very time: the key asked for was A or B, evicted by
\* the Nail of C or never Nailed
C36_Witness ==
    /\ ret = Ret("Bring", Nil, FALSE)
    /\ ~closed
    /\ maxSize = 1
    /\ Present(cache) = {"C"}
    /\ lastPut["C"].at = now
    /\ UpdaterSize(updater) = 1
    /\ now = MaxTime

\* the nodes of an lru reached from the head sentinel along next
RECURSIVE lruWalkNext(_, _, _)
lruWalkNext(l, node, fuel) ==
    IF node = lruTail \/ node = Nil \/ fuel = 0
    THEN << >>
    ELSE <<node>> \o lruWalkNext(l, l.next[node], fuel - 1)

Reverse(q) == [i \in 1..Len(q) |-> q[Len(q) + 1 - i]]

\* C37 -- lru structural invariant.  After any sequence of Add (of untracked
\* items), Access, Remove, Evict and Clear the list between the sentinels is
\* a well-formed doubly linked chain (x.next.prev = x and x.prev.next = x
\* along it, the same nodes forwards and backwards, none twice) of exactly
\* size nodes, nodeMap has exactly size entries, each item mapped to the one
\* node of the chain that holds it, and size >= 0.
C37_LruWellFormed ==
    updater.kind = "lru" =>
        LET fwd   == lruWalkNext(updater, updater.next[lruHead], NumItems + 1)
            bwd   == lruWalk(updater, updater.prev[lruTail], NumItems + 1)
            nodes == SeqToSet(fwd)
            keyed == {i \in ItemIds : updater.nodeMap[i] # Nil}
        IN  /\ updater.size >= 0
            /\ Len(fwd) = updater.size
            /\ NoDuplicates(fwd)
            /\ nodes \subseteq ItemIds
            /\ bwd = Reverse(fwd)
            /\ \A x \in nodes \cup {lruHead} : updater.prev[updater.next[x]] = x
            /\ \A x \in nodes \cup {lruTail} : updater.next[updater.prev[x]] = x
            /\ updater.prev[lruHead] = Nil
            /\ updater.next[lruTail] = Nil
            /\ Cardinality(keyed) = updater.size
            /\ keyed = nodes
            /\ \A i \in keyed : updater.nodeMap[i] = i
            /\ lruSize(updater) = Cardinality(nodes)

\* Evict has just taken the tail node off an lru that tracked all three
\* items; the two others are still chained
C37_Witness ==
    /\ updater.kind = "lru"
    /\ ret.op = "Evict"
    /\ ret.ok
    /\ updater.size = NumItems - 1
    /\ updater.nodeMap[ret.val] = Nil
    /\ Len(Tracked(updater)) = NumItems - 1

====
